---- MODULE Spec2Model ----
(***************************************************************************)
(* The Twitchy bot (src/bot/bot.py) with its user registry (_stats), its   *)
(* event table (_events), the poll event (src/data_types/events.py) and    *)
(* the command handlers (src/data_types/commands.py).                      *)
(*                                                                         *)
(* Python sequences are 0-indexed, TLA+ sequences 1-indexed: an index i of *)
(* the source is written i + 1 here.                                       *)
(*                                                                         *)
(* Spec is the bot under chat messages, votes and the sweep of the event   *)
(* table; SpecRouter the router under the commands that target users, set  *)
(* levels and roll dice; SpecLevels set_user_level and the level commands; *)
(* SpecDice one call of _roll_dice.                                        *)
(***************************************************************************)
EXTENDS Integers, Sequences, FiniteSets, TLC

VARIABLES
    stats,      \* Twitchy._stats: username -> User record
    events,     \* Twitchy._events: slot name -> event record
    now,        \* the value time.time() returns
    ticks,      \* how many times the clock has advanced (bounds the run)
    call,       \* the operation the last step performed, with its inputs
    sent,       \* the chat messages the last step sent, in order
    dispatch,   \* the command handlers the last step invoked, in order
    raised,     \* the last step's handler raised into execute_command's except
    prev_cmd,   \* history: username -> the user's previous command message
    locks,      \* the mutexes of Twitchy that are held when the step ends
    escaped,    \* an exception of the last step left _handle_message
    dice,       \* a call of _roll_dice: its arguments, its rolls, its result
    audit,      \* what the last step did with the mutexes
    file,       \* the stats file at STATS_PATH
    boot,       \* how far Twitchy.__init__ has come
    emitted,    \* history: slot name -> broadcasts emitted since add_event
    chatters,   \* Twitchy._chatters: the names the last fetch returned
    conc        \* threads followed statement by statement

vars == <<stats, events, now, ticks, call, sent, dispatch, raised, prev_cmd,
          locks, escaped, dice, audit, file, boot, emitted, chatters, conc>>

----------------------------------------------------------------------------
\* Bounds of the model.

\* time.time() when the process starts (seconds since the epoch)
StartTime == 1700000000
\* clock advances in one run
MaxTicks == 2
\* chat messages handled in one run
MaxMsgs == 2
\* votes counted by one poll
MaxVotes == 2

----------------------------------------------------------------------------
\* Program constants.

COMMAND_DELAY == 60
VIP_COMMAND_DELAY == 30
VOTE_DELAY == 10000000
\* the most dice _roll_dice rolls
MAX_DICE == 15
SPLIT_COMMAND_NAME == 0
SPLIT_COMMAND_ARGS == 1

Owner == "owner"
Names == {"owner", "alice"}

OWNER == "owner"
MOD == "mod"
VIP == "vip"
USER == "user"

None == [kind |-> "none"]

----------------------------------------------------------------------------
\* Sequences and strings.

Range(s) == {s[i] : i \in 1..Len(s)}

\* s[lo:hi] of Python with 0 <= lo and hi counted from the start
Slice(s, lo, hi) == [i \in 1..(IF hi > lo THEN hi - lo ELSE 0) |-> s[lo + i]]

\* the keys of {x: 0 for x in s}, in insertion order
RECURSIVE DictKeys(_)
DictKeys(s) ==
    IF s = <<>> THEN <<>>
    ELSE LET front == DictKeys(SubSeq(s, 1, Len(s) - 1))
             last == s[Len(s)]
         IN IF last \in Range(front) THEN front ELSE Append(front, last)

\* str.title() on the strings of the model
StrTitle(s) ==
    CASE s = "cat" -> "Cat"
      [] s = "dog" -> "Dog"
      [] s = "bird" -> "Bird"
      [] s = "emu" -> "Emu"
      [] s = "cat,dog,bird" -> "Cat,Dog,Bird"
      [] s \in {"", "Pet", "Best Pet", "Best_Pet"} -> s

\* str.replace("_", " ") on the strings of the model
ReplaceUnderscore(s) ==
    CASE s = "Best_Pet" -> "Best Pet"
      [] s = "Pet" -> s

\* int(s): the domain holds the strings int() accepts, any other string
\* raises ValueError
IntOf == ("0" :> 0) @@ ("2" :> 2) @@ ("5" :> 5)

\* str.split("d") on the strings of the model
StrSplitD(s) ==
    CASE s = "" -> <<"">>
      [] s = "20" -> <<"20">>
      [] s = "2d5" -> <<"2", "5">>
      [] s = "2dx" -> <<"2", "x">>

Min(a, b) == IF a < b THEN a ELSE b

\* "HELP" in s.upper() on the strings of the model
ContainsHelp(s) == s \in {"help", "HELP", "Help", "helper"}

\* str.startswith("!") on the first token of a text
StartsWithBang(s) ==
    s \in {"!vote", "!start_poll", "!messages", "!current_poll", "!nope",
           "!roll", "!bonk", "!hug", "!set_vips", "!set_mods",
           "!start_broadcast"}

----------------------------------------------------------------------------
\* User (src/data_types/user.py).

\* User(name, level, last_chat): the other fields take the dataclass defaults
User(level, last_chat) ==
    [level |-> level, last_chat |-> last_chat, last_command |-> 0,
     last_vote |-> 0, messages_sent |-> 0, bonks |-> 0, hugs |-> 0]

\* the default of last_chat is evaluated once, when the class is defined
DefaultLastChat == StartTime

RECURSIVE TotalMessages(_, _)
TotalMessages(st, names) ==
    IF names = {} THEN 0
    ELSE LET n == CHOOSE x \in names : TRUE
         IN st[n].messages_sent + TotalMessages(st, names \ {n})

----------------------------------------------------------------------------
\* The world a call runs in (src/bot/bot.py).

\* the three mutexes of Twitchy
FILE_MUTEX == "_file_mutex"
QUEUE_MUTEX == "_queue_mutex"
CHATTERS_MUTEX == "_chatters_mutex"

\* what a step did with the mutexes: the registry mutations made without
\* _file_mutex, the mutexes held at a chat send and at a fetch of the
\* chatters, and the slots whose broadcast was emitted
NoAudit ==
    [unlocked |-> {}, send_held |-> {}, fetch_held |-> {}, emits |-> {}]

\* a world is the registry, the event table, the messages sent so far, the
\* mutexes held, the seconds spent in time.sleep and the audit of the step
World(st, evs) ==
    [stats |-> st, events |-> evs, sent |-> <<>>, held |-> locks, slept |-> 0,
     audit |-> NoAudit]

\* "with mutex:" enters by acquiring the mutex and leaves, by the end of the
\* block or by an exception, by releasing it
Acquire(w, mutex) ==
    [w EXCEPT !.held = @ \cup {mutex}]
Release(w, mutex) == [w EXCEPT !.held = @ \ {mutex}]

\* time.sleep(seconds)
Sleep(w, seconds) == [w EXCEPT !.slept = @ + seconds]

\* Twitchy.send: self._bot.send(message), a call into the network
Send(w, msg) ==
    [w EXCEPT !.sent = Append(@, msg),
              !.audit.send_held = @ \cup w.held]

\* self._bot.helix.api.get("/chat/chatters", ...), a call into the network
Fetch(w) == [w EXCEPT !.audit.fetch_held = @ \cup w.held]

\* a mutation of the registry or of a record of it, named what
Touch(w, what) ==
    [w EXCEPT !.audit.unlocked =
                 IF FILE_MUTEX \in w.held THEN @ ELSE @ \cup {what}]

----------------------------------------------------------------------------
\* BotEvent and PollBotEvent (src/data_types/events.py).

\* PollBotEvent(bot, title, choices, timeout) built at time t
PollBotEvent(title, choices, timeout, t) ==
    [kind |-> "poll", title |-> title, choices |-> DictKeys(choices),
     tally |-> [c \in Range(choices) |-> 0], timeout |-> timeout,
     spawn_time |-> t, one_shot |-> TRUE]

\* TimedOut with the comparison strict: the poll stays open at the second
\* its timeout is reached
TimedOutStrict(ev, t) ==
    IF ev.timeout # 0 THEN t - ev.spawn_time > ev.timeout ELSE FALSE

TimedOut(ev, t) ==
    IF ev.timeout # 0 THEN t - ev.spawn_time >= ev.timeout ELSE FALSE

\* Vote assigning 1 instead of adding 1
VoteAssignsOne(ev, choice) ==
    IF choice \in Range(ev.choices)
    THEN [ev EXCEPT !.tally[choice] = 1]
    ELSE ev

Vote(ev, choice) ==
    IF choice \in Range(ev.choices)
    THEN [ev EXCEPT !.tally[choice] = @ + 1]
    ELSE ev

\* the loop of PollBotEvent.finish over _choices.items(), from index i on
RECURSIVE WinnerFrom(_, _, _)
WinnerFrom(ev, i, winner) ==
    IF i > Len(ev.choices) THEN winner
    ELSE LET choice == ev.choices[i]
             count == ev.tally[choice]
         IN WinnerFrom(ev, i + 1,
                IF count > winner[2] THEN <<choice, count>> ELSE winner)

Winner(ev) == WinnerFrom(ev, 1, <<"", 0>>)

\* PollReturnsSelf with the test turned around
PollReturnsSelfInverted(ev) == ~ev.one_shot

\* return self if self._one_shot else None: whether a finished poll hands
\* itself to the sweep for removal
PollReturnsSelf(ev) == ev.one_shot

\* the end of PollBotEvent.finish: every last_vote of the registry is
\* reset and the spawn time is set
PollClose(w, name, t) ==
    [Touch(w, "last_vote") EXCEPT
        !.stats = [n \in DOMAIN w.stats |-> [w.stats[n] EXCEPT !.last_vote = 0]],
        !.events[name].spawn_time = IF w.events[name].one_shot THEN 0 ELSE t]

\* PollBotEvent.finish at time t on the event in slot name of world w: the
\* world after it, and whether it returned the event (truthy) or None
PollFinish(w, name, t) ==
    LET ev == w.events[name]
    IN IF TimedOut(ev, t) \/ ev.timeout = 0
       THEN [w |-> PollClose(Send(w, [type |-> "won", title |-> ev.title,
                                      winner |-> StrTitle(Winner(ev)[1]),
                                      votes |-> Winner(ev)[2]]),
                             name, t),
             done |-> PollReturnsSelf(ev)]
       ELSE [w |-> w, done |-> FALSE]

\* BroadcastBotEvent(bot, message, timeout, one_shot, repeats) built at t
BroadcastBotEvent(message, timeout, one_shot, repeats, t) ==
    [kind |-> "broadcast", message |-> message, timeout |-> timeout,
     spawn_time |-> t, one_shot |-> one_shot, repeats |-> repeats,
     iterations |-> 0]

\* BroadcastReturnsSelf that never hands the event back
BroadcastReturnsSelfNever(ev) == FALSE

\* the two returns of self in BroadcastBotEvent.finish, on the event after
\* the emission
BroadcastReturnsSelf(ev) ==
    ev.one_shot \/ (~ev.one_shot /\ ev.iterations >= ev.repeats)

\* Emitted without the count of the iteration
EmittedUncounted(ev, t) ==
    [ev EXCEPT !.spawn_time = IF ~ev.one_shot THEN t ELSE 0]

\* the event after an emission at time t
Emitted(ev, t) ==
    [ev EXCEPT !.iterations = @ + (IF ~ev.one_shot THEN 1 ELSE 0),
               !.spawn_time = IF ~ev.one_shot THEN t ELSE 0]

\* BroadcastBotEvent.finish at time t on the event in slot name
BroadcastFinish(w, name, t) ==
    IF TimedOut(w.events[name], t)
    THEN [w |-> [Send(w, [type |-> "broadcast",
                          text |-> w.events[name].message])
                 EXCEPT !.events[name] = Emitted(@, t),
                        !.audit.emits = @ \cup {name}],
          done |-> BroadcastReturnsSelf(Emitted(w.events[name], t))]
    ELSE [w |-> w, done |-> FALSE]

\* finish reaches its send at time t
WouldSend(ev, t) ==
    IF ev.kind = "poll" THEN TimedOut(ev, t) \/ ev.timeout = 0
    ELSE TimedOut(ev, t)

\* the world when the send of finish raises: a poll has changed nothing yet,
\* a broadcast has counted the iteration
FinishDown(w, name) ==
    IF w.events[name].kind = "poll" THEN w
    ELSE [w EXCEPT !.events[name].iterations =
                      @ + (IF ~w.events[name].one_shot THEN 1 ELSE 0)]

\* event.finish() by the class of the event
Finish(w, name, t) ==
    IF w.events[name].kind = "poll" THEN PollFinish(w, name, t)
    ELSE BroadcastFinish(w, name, t)

----------------------------------------------------------------------------
\* Twitchy (src/bot/bot.py): the operations command handlers call.

\* what a call yields: the world after it, whether it raised, and the class
\* of the exception ("" when it returned)
Returned(w) == [w |-> w, err |-> FALSE, exc |-> ""]
RaiseExc(w, exc) == [w |-> w, err |-> TRUE, exc |-> exc]
\* a call whose arguments do not fit the signature
Raise(w) == RaiseExc(w, "TypeError")

\* dict assignment e[name] = event: inserts or overwrites, never raises
DictSet(e, name, event) ==
    [n \in DOMAIN e \cup {name} |-> IF n = name THEN event ELSE e[n]]

\* dict.pop of every name in names
DictPop(e, names) == [n \in DOMAIN e \ names |-> e[n]]

\* add_event: the world after it and the value it returns
AddEvent(w, name, event) ==
    LET w1 == Acquire(w, QUEUE_MUTEX)
        w2 == [w1 EXCEPT !.events = DictSet(w1.events, name, event)]
    IN [w |-> Release(w2, QUEUE_MUTEX), ok |-> TRUE]

AddPoll(w, event) ==
    LET r == AddEvent(w, "current_poll", event)
    IN IF r.ok
       THEN Send(r.w, [type |-> "created_poll", title |-> event.title])
       ELSE Send(r.w, [type |-> "already_running"])

UpdatePoll(w, user, choice) ==
    LET w1 == Acquire(w, QUEUE_MUTEX)
        w2 == IF "current_poll" \in DOMAIN w1.events
              THEN Send([w1 EXCEPT !.events["current_poll"] = Vote(@, choice)],
                        [type |-> "thank_you", user |-> user, text |-> choice])
              ELSE Send(w1, [type |-> "not_in_poll", text |-> choice])
    IN Release(w2, QUEUE_MUTEX)

\* a call bot.update_poll(*args): Python binds the positional arguments to
\* (user, choice) and raises TypeError when their number is not two
CallUpdatePoll(w, args) ==
    IF Len(args) = 2
    THEN Returned(UpdatePoll(w, args[1], args[2]))
    ELSE Raise(w)

GetCurrentPollInfo(w) ==
    IF "current_poll" \in DOMAIN w.events THEN w.events["current_poll"] ELSE None

\* the body of _monitor_loop: finish every event of the table, then pop the
\* ones whose finish returned the event
\* down says that self._bot.send raises; the finish that sends then raises
\* out of the loop and nothing is popped
RECURSIVE SweepFrom(_, _, _, _, _)
SweepFrom(w, todo, to_clear, t, down) ==
    IF todo = {}
    THEN [w |-> [w EXCEPT !.events = DictPop(w.events, to_clear)], exc |-> FALSE]
    ELSE LET name == CHOOSE n \in todo : TRUE
         IN IF down /\ WouldSend(w.events[name], t)
            THEN [w |-> FinishDown(w, name), exc |-> TRUE]
            ELSE SweepFrom(Finish(w, name, t).w, todo \ {name},
                           IF Finish(w, name, t).done
                           THEN to_clear \cup {name} ELSE to_clear, t, down)

MonitorFrom(w, todo, to_clear, t) == SweepFrom(w, todo, to_clear, t, FALSE).w

MonitorBody(w, t) ==
    LET w1 == Acquire(w, QUEUE_MUTEX)
    IN Release(MonitorFrom(w1, DOMAIN w1.events, {}, t), QUEUE_MUTEX)

\* the with block of _monitor_loop when the sends may raise: the mutex is
\* released either way
MonitorSweep(w, t, down) ==
    [w |-> Release(SweepFrom(Acquire(w, QUEUE_MUTEX), DOMAIN w.events, {}, t,
                             down).w, QUEUE_MUTEX),
     exc |-> SweepFrom(Acquire(w, QUEUE_MUTEX), DOMAIN w.events, {}, t, down).exc]

\* add_user: self._stats[user.name] = user
AddUser(w, name, user) ==
    [Touch(w, "add_user") EXCEPT !.stats = DictSet(w.stats, name, user)]

\* update_user: print("pre", self._stats[user.name]) raises KeyError for an
\* absent name, then self._stats.update({user.name: user})
PublicUpdateUser(w, name, user) ==
    IF name \notin DOMAIN w.stats THEN RaiseExc(w, "KeyError")
    ELSE Returned([Touch(w, "update_user") EXCEPT !.stats[name] = user])

\* Protected with the Owner level alone
ProtectedOwnerOnly(level) == level = OWNER

\* the levels set_user_level leaves alone: level in (Level.MOD, Level.OWNER)
Protected(level) == level \in {MOD, OWNER}

\* set_user_level; self._stats[username] raises KeyError for an absent name
SetUserLevel(w, username, level) ==
    IF username \notin DOMAIN w.stats THEN RaiseExc(w, "KeyError")
    ELSE IF ~Protected(w.stats[username].level)
    THEN Returned([Touch(w, "set_user_level") EXCEPT
                      !.stats[username].level = level])
    ELSE Returned(w)

----------------------------------------------------------------------------
\* The command tables (src/bot/commands.py); a table maps a command name to
\* its handler class.

INVALID_COMMAND == "OnInvalidCommand"
DELAY_NOT_MET_COMMAND == "OnDelayNotMetCommand"
HELP_COMMAND == "OnHelpCommand"

commands ==
    ("!messages" :> "OnMessagesCommand") @@ ("!roll" :> "OnRollCommand")
    @@ ("!first_sighting" :> "OnFirstSightingCommand")
    @@ ("!who_am_i" :> "OnWhoAmICommand")
    @@ ("!reroll_me" :> "OnRerollMeCommand")
    @@ ("!bonk" :> "OnBonkCommand") @@ ("!bonked?" :> "OnGetBonksCommand")
    @@ ("!hug" :> "OnHugCommand") @@ ("!hugged?" :> "OnGetHugsCommand")
    @@ ("!points?" :> "OnGetPointsCommand")
    @@ ("!vote" :> "OnVoteCommand")
    @@ ("!current_poll" :> "OnGetCurrentPoll")
    @@ ("!commands" :> "OnGetCommands")

\* the entries mod_commands is created with
ModOnly ==
    ("!set_vips" :> "OnSetVipsCommand")
    @@ ("!start_poll" :> "OnCreatePollCommand")
    @@ ("!start_broadcast" :> "OnSetBroadcastCommand")

\* the entry owner_commands is created with
OwnerOnly == ("!set_mods" :> "OnSetModsCommand")

\* mod_commands holding the owner's entry as well
mod_commands_with_owner == commands @@ ModOnly @@ OwnerOnly

\* mod_commands.update(commands): on a shared key the entry of commands wins
mod_commands == commands @@ ModOnly

\* owner_commands.update(mod_commands)
owner_commands == mod_commands @@ OwnerOnly

\* dict.get(name, default)
DictGet(table, name, default) ==
    IF name \in DOMAIN table THEN table[name] ELSE default

----------------------------------------------------------------------------
\* The command handlers (src/data_types/commands.py).  A handler called as
\* execute(bot, message, *args) at time t by user yields the world after it
\* and whether it raised.  Calling it with more positional arguments than its
\* signature takes raises TypeError.

OnInvalidCommand(w, user, args, t) ==
    IF Len(args) > 0 THEN Raise(w)
    ELSE Returned(Send(w, [type |-> "invalid_command", user |-> user]))

OnMessagesCommand(w, user, args, t) ==
    IF Len(args) > 0 THEN Raise(w)
    ELSE Returned(Send(w, [type |-> "messages", user |-> user,
                           n |-> w.stats[user].messages_sent]))

OnGetCurrentPoll(w, user, args, t) ==
    IF Len(args) > 0 THEN Raise(w)
    ELSE LET poll_event == GetCurrentPollInfo(w)
         IN IF poll_event # None
            THEN Returned(Send(w, [type |-> "poll_status",
                                   title |-> poll_event.title,
                                   tally |-> poll_event.tally]))
            ELSE Returned(w)

OnVoteCommand(w, user, args, t) ==
    IF Len(args) > 1 THEN Raise(w)
    ELSE LET choice == IF Len(args) = 1 THEN args[1] ELSE ""
             delta == t - w.stats[user].last_vote
         IN IF delta > VOTE_DELAY
            THEN CallUpdatePoll(w, <<choice>>)
            ELSE Returned(Send(w, [type |-> "already_voted", user |-> user]))

\* TITLE = 0 and DURATION = -1 index the arguments
OnCreatePollCommand(w, user, args, t) ==
    IF Len(args) >= 3
    THEN LET poll_name == StrTitle(ReplaceUnderscore(args[1]))
             poll_choices == Slice(args, 0, Len(args) - 1)
         IN IF args[Len(args)] \notin DOMAIN IntOf
            THEN RaiseExc(w, "ValueError")
            ELSE Returned(AddPoll(w, PollBotEvent(poll_name, poll_choices,
                                                  IntOf[args[Len(args)]], t)))
    ELSE Returned(Send(w, [type |-> "try_again"]))

\* HELP_COMMAND(self, message, command_to_execute)
OnHelpCommand(w, user, command) ==
    Returned(Send(w, [type |-> "help", user |-> user, text |-> command]))

\* DELAY_NOT_MET_COMMAND(self, message, user_command_delta, level)
OnDelayNotMetCommand(w, user, user_command_delta, level) ==
    IF level = VIP
    THEN Returned(Send(w, [type |-> "delay_not_met", user |-> user, vip |-> TRUE,
                           wait |-> VIP_COMMAND_DELAY - user_command_delta]))
    ELSE Returned(Send(w, [type |-> "delay_not_met", user |-> user, vip |-> FALSE,
                           wait |-> COMMAND_DELAY - user_command_delta]))

\* TargetKnown with the test turned around
TargetKnownInverted(w, target) == target \notin DOMAIN w.stats

\* target in bot.stats
TargetKnown(w, target) == target \in DOMAIN w.stats

\* OnTargetCommand.execute(bot, message, target=""); counter is the field
\* the subclass's _increment adds 1 to
OnTargetCommand(w, user, args, counter) ==
    IF Len(args) > 1 THEN Raise(w)
    ELSE LET target == IF Len(args) = 1 THEN args[1] ELSE ""
         IN IF TargetKnown(w, target)
            THEN Returned(Send([Touch(w, counter) EXCEPT
                                   !.stats[target][counter] = @ + 1],
                               [type |-> "targeted", user |-> user,
                                target |-> target, text |-> counter]))
            ELSE Returned(Send(w, [type |-> "target_not_found", user |-> user,
                                   target |-> target]))

OnBonkCommand(w, user, args, t) == OnTargetCommand(w, user, args, "bonks")
OnHugCommand(w, user, args, t) == OnTargetCommand(w, user, args, "hugs")

\* _set_levels: the loop over to_list
RECURSIVE SetLevels(_, _, _)
SetLevels(w, to_list, level) ==
    IF to_list = <<>> THEN w
    ELSE LET user == Head(to_list)
             w1 == IF user \notin DOMAIN w.stats
                   THEN AddUser(w, user, User(level, DefaultLastChat))
                   ELSE SetUserLevel(w, user, level).w
             w2 == Send(w1, [type |-> "slash_level", level |-> level,
                             target |-> user])
             w3 == Send(w2, [type |-> "recognized", level |-> level,
                             target |-> user])
         IN SetLevels(Sleep(w3, 1), Tail(to_list), level)

\* execute(bot, message, *to_vip) takes any number of arguments
OnSetVipsCommand(w, user, args, t) == Returned(SetLevels(w, args, VIP))
OnSetModsCommand(w, user, args, t) == Returned(SetLevels(w, args, MOD))

\* Clamped without the cap
ClampedNot(number) == number

\* number = min(number, 15) of _roll_dice
Clamped(number) == Min(number, MAX_DICE)

\* the except clauses of OnRollCommand.execute
RollCatches(exc) == exc \in {"IndexError", "TypeError"}

\* the try block of OnRollCommand.execute: split_roll[1] raises IndexError
\* when roll_str holds no "d", int() raises ValueError on a string that is
\* not an integer, random.randint(1, sides) raises ValueError when sides < 1
RollTry(w, user, roll_str) ==
    LET split_roll == StrSplitD(roll_str)
    IN IF Len(split_roll) < 2 THEN RaiseExc(w, "IndexError")
       ELSE IF split_roll[2] \notin DOMAIN IntOf THEN RaiseExc(w, "ValueError")
       ELSE IF split_roll[1] \notin DOMAIN IntOf THEN RaiseExc(w, "ValueError")
       ELSE LET sides == IntOf[split_roll[2]]
                number == Clamped(IntOf[split_roll[1]])
            IN IF number >= 1 /\ sides < 1 THEN RaiseExc(w, "ValueError")
               ELSE Returned(Send(w, [type |-> "rolled", user |-> user,
                                      sides |-> sides, n |-> number]))

\* the except clauses after the try block yielded r
RollExcept(r, w, user, roll_str) ==
    IF r.err /\ RollCatches(r.exc)
    THEN Returned(Send(w, [type |-> "invalid_roll", user |-> user,
                           text |-> roll_str]))
    ELSE r

\* OnRollCommand.execute(bot, message, roll_str="")
OnRollCommand(w, user, args, t) ==
    IF Len(args) > 1 THEN Raise(w)
    ELSE RollExcept(RollTry(w, user, IF Len(args) = 1 THEN args[1] ELSE ""),
                    w, user, IF Len(args) = 1 THEN args[1] ELSE "")

\* Command.__call__: execute of the handler's class
Execute(command, w, user, args, t) ==
    CASE command = "OnMessagesCommand" -> OnMessagesCommand(w, user, args, t)
      [] command = "OnBonkCommand" -> OnBonkCommand(w, user, args, t)
      [] command = "OnHugCommand" -> OnHugCommand(w, user, args, t)
      [] command = "OnRollCommand" -> OnRollCommand(w, user, args, t)
      [] command = "OnSetVipsCommand" -> OnSetVipsCommand(w, user, args, t)
      [] command = "OnSetModsCommand" -> OnSetModsCommand(w, user, args, t)
      [] command = "OnVoteCommand" -> OnVoteCommand(w, user, args, t)
      [] command = "OnGetCurrentPoll" -> OnGetCurrentPoll(w, user, args, t)
      [] command = "OnCreatePollCommand" -> OnCreatePollCommand(w, user, args, t)
      [] command = "OnInvalidCommand" -> OnInvalidCommand(w, user, args, t)

----------------------------------------------------------------------------
\* Twitchy._handle_message and what it calls (src/bot/bot.py).

\* DelayNotMet with the comparison turned around
DelayNotMetInverted(user_command_delta, delay) == user_command_delta >= delay

\* the cooldown test of _handle_command
DelayNotMet(user_command_delta, delay) == user_command_delta <= delay

\* the exception classes of the model; all derive from Exception
Exceptions == {"TypeError", "ValueError", "KeyError", "IndexError"}

\* ExceptCatches with the clause narrowed to KeyError
ExceptCatchesKeyError(exc) == exc = "KeyError"

\* "except Exception" of execute_command
ExceptCatches(exc) == exc \in Exceptions

\* execute_command: the help handler or the resolved command, and the
\* except clause that absorbs what they raise; escaped tells that an
\* exception left execute_command
Try(r, command) ==
    [w |-> r.w, dispatch |-> <<command>>, raised |-> r.err,
     escaped |-> r.err /\ ~ExceptCatches(r.exc)]

ExecuteCommand(w, user, split_command, command, t) ==
    IF Len(split_command) > 1 /\ ContainsHelp(split_command[SPLIT_COMMAND_ARGS + 1])
    THEN Try(OnHelpCommand(w, user, command), HELP_COMMAND)
    ELSE Try(Execute(command, w, user,
                     Slice(split_command, SPLIT_COMMAND_ARGS,
                           Len(split_command)), t), command)

\* the cooldown _handle_command applies at a level below Mod
CommandDelay(level) ==
    IF level = VIP THEN VIP_COMMAND_DELAY ELSE COMMAND_DELAY

\* a handler called outside the try block: what it raises leaves
\* _handle_command
Untried(r, command) ==
    [w |-> r.w, dispatch |-> <<command>>, raised |-> FALSE, escaped |-> r.err]

HandleCommand(w, user, split_command, level, t) ==
    IF split_command = <<>>
    THEN [w |-> w, dispatch |-> <<>>, raised |-> FALSE, escaped |-> FALSE]
    ELSE LET user_command_delta == t - w.stats[user].last_command
             command_name == split_command[SPLIT_COMMAND_NAME + 1]
         IN CASE level = OWNER ->
                   ExecuteCommand(w, user, split_command,
                       DictGet(owner_commands, command_name, INVALID_COMMAND), t)
              [] level = MOD ->
                   ExecuteCommand(w, user, split_command,
                       DictGet(mod_commands, command_name, INVALID_COMMAND), t)
              [] OTHER ->
                   LET delay == CommandDelay(level)
                   IN IF DelayNotMet(user_command_delta, delay)
                      THEN Untried(OnDelayNotMetCommand(w, user,
                                       user_command_delta, level),
                                   DELAY_NOT_MET_COMMAND)
                      ELSE ExecuteCommand(w, user, split_command,
                               DictGet(commands, command_name, INVALID_COMMAND), t)

\* _update_user
UpdateUser(w, user, t) ==
    LET w1 == Acquire(w, FILE_MUTEX)
        w2 == [Touch(w1, "_update_user") EXCEPT
                         !.stats[user].last_chat = t,
                         !.stats[user].messages_sent = @ + 1]
    IN Release(w2, FILE_MUTEX)

\* SplitCommand without the test of the prefix
SplitCommandAlways(text) == text

\* message.text.split(" ") if message.text.startswith("!") else ""
SplitCommand(text) == IF StartsWithBang(text[1]) THEN text ELSE <<>>

\* the level _handle_message passes to _handle_command
CommandLevel(w, username) ==
    IF username = Owner THEN OWNER
    ELSE IF w.stats[username].level = MOD THEN MOD
    ELSE USER

\* the end of _handle_message after _handle_command yielded r: _update_user
\* runs unless an exception is on its way out
AfterCommand(r, username, level, t) ==
    [w |-> IF r.escaped THEN r.w
           ELSE UpdateUser(r.w, username, t + r.w.slept),
     dispatch |-> r.dispatch, raised |-> r.raised, escaped |-> r.escaped,
     level |-> level]

\* _handle_message from the point where the sender has a record
HandleKnown(w, username, text, t) ==
    AfterCommand(HandleCommand(w, username, SplitCommand(text),
                               CommandLevel(w, username), t),
                 username, CommandLevel(w, username), t)

HandleMessageBody(w, username, text, t) ==
    IF username \notin DOMAIN w.stats
    THEN HandleKnown(AddUser(w, username, User(USER, DefaultLastChat)),
                     username, text, t)
    ELSE HandleKnown(w, username, text, t)

----------------------------------------------------------------------------
\* Inputs.

VoteUsers == {"alice"}
VoteChoices == {"cat", "dog", "emu"}
TickSteps == {2, COMMAND_DELAY - 1}

\* message.text, as the tokens between its spaces
Texts ==
    {<<"hello">>, <<"!messages">>, <<"!vote", "cat">>,
     <<"!start_poll", "Best_Pet", "cat,dog,bird", "5">>,
     <<"!start_poll", "Pet", "cat", "dog", "2">>,
     <<"!start_poll", "Pet", "dog", "cat", "0">>}

TotalVotes(ev) ==
    LET RECURSIVE Sum(_)
        Sum(cs) == IF cs = {} THEN 0
                   ELSE LET c == CHOOSE x \in cs : TRUE
                        IN ev.tally[c] + Sum(cs \ {c})
    IN Sum(DOMAIN ev.tally)

----------------------------------------------------------------------------
\* The stats file (src/data_types/user.py, src/bot/bot.py).

\* the file at STATS_PATH: absent, text json.loads rejects, or a JSON object
\* username -> values
NoFile == [kind |-> "absent", data |-> <<>>]
Malformed == [kind |-> "malformed", data |-> <<>>]
Json(data) == [kind |-> "json", data |-> data]

\* User.to_dict: asdict(self) without the name, every field under its key
ToDict(user) ==
    [level |-> user.level, last_chat |-> user.last_chat,
     last_command |-> user.last_command, last_vote |-> user.last_vote,
     messages_sent |-> user.messages_sent, bonks |-> user.bonks,
     hugs |-> user.hugs]

\* User.from_dict at time t: the keys it reads, each with its default; the
\* fields it does not read keep the defaults of the dataclass
FromDict(vals, t) ==
    [level |-> DictGet(vals, "level", USER),
     last_chat |-> DictGet(vals, "last_chat", t),
     last_command |-> 0,
     last_vote |-> 0,
     messages_sent |-> DictGet(vals, "messages_sent", 0),
     bonks |-> DictGet(vals, "bonks", 0),
     hugs |-> DictGet(vals, "hugs", 0)]

\* the object _file_write_loop dumps: the to_dict of every user, merged
Snapshot(st) == [n \in DOMAIN st |-> ToDict(st[n])]

\* the registry _load_stats builds from the object of the file at time t
Loaded(data, t) == [n \in DOMAIN data |-> FromDict(data[n], t)]

\* the default user of _load_stats with the level of a plain user
SeedUserPlain(t) == User(USER, t)

\* default_user = User(self._owner, Level.OWNER, time.time())
SeedUser(t) == User(OWNER, t)

\* the file _load_stats writes when none exists
SeedFile(owner, t) == Json(owner :> ToDict(SeedUser(t)))

\* the body of _file_write_loop after the sleep
FileWriteBody(w) ==
    [w |-> Release(Acquire(w, FILE_MUTEX), FILE_MUTEX),
     file |-> Json(Snapshot(Acquire(w, FILE_MUTEX).stats))]

\* the body of _monitor_chatters before the sleep: _get_chatters under
\* _chatters_mutex; got is what the API returned, or that the call raised
MonitorChattersBody(w, got) ==
    [w |-> Release(Fetch(Acquire(w, CHATTERS_MUTEX)), CHATTERS_MUTEX),
     exc |-> ~got.ok]

\* no callback is being followed statement by statement
NoThreads == [th |-> <<>>]

----------------------------------------------------------------------------
\* The state after Twitchy.__init__ when no stats file exists: _load_stats
\* writes the owner's record and reads it back.

BotInit ==
    /\ events = <<>>
    /\ now = StartTime
    /\ ticks = 0
    /\ call = [name |-> "init"]
    /\ sent = <<>>
    /\ dispatch = <<>>
    /\ raised = FALSE
    /\ prev_cmd = <<>>
    /\ locks = {}
    /\ escaped = FALSE
    /\ audit = NoAudit
    /\ boot = "running"
    /\ emitted = <<>>
    /\ chatters = {}
    /\ conc = NoThreads

\* no call of _roll_dice is under way
NoDice == [pc |-> "idle"]

Init ==
    /\ stats = (Owner :> User(OWNER, StartTime))
    /\ file = SeedFile(Owner, StartTime)
    /\ dice = NoDice
    /\ BotInit

\* time passes
Tick(d) ==
    /\ ticks < MaxTicks
    /\ now' = now + d
    /\ ticks' = ticks + 1
    /\ call' = [name |-> "tick"]
    /\ sent' = <<>>
    /\ dispatch' = <<>>
    /\ raised' = FALSE
    /\ escaped' = FALSE
    /\ audit' = NoAudit
    /\ UNCHANGED <<stats, events, prev_cmd, locks, dice>>
    /\ UNCHANGED <<file, boot, emitted, chatters, conc>>

\* one iteration of _monitor_loop
\* the state after the with block of _monitor_loop yielded r
Swept(r) ==
    /\ stats' = r.w.stats
    /\ events' = r.w.events
    /\ sent' = r.w.sent
    /\ locks' = r.w.held
    /\ audit' = r.w.audit
    /\ emitted' = [n \in DOMAIN emitted |->
                      [emitted[n] EXCEPT !.count =
                          @ + (IF n \in r.w.audit.emits THEN 1 ELSE 0)]]
    /\ call' = [name |-> "monitor"]
    /\ dispatch' = <<>>
    /\ raised' = r.exc
    /\ escaped' = r.exc
    /\ UNCHANGED <<now, ticks, prev_cmd, dice>>
    /\ UNCHANGED <<file, boot, chatters>>

Monitored(w) ==
    /\ Swept([w |-> w, exc |-> FALSE])
    /\ UNCHANGED conc

Monitor ==
    Monitored(MonitorBody(World(stats, events), now))

\* a caller of the facade votes: bot.update_poll(user, choice)
ApiUpdatePoll(user, choice) ==
    LET r == CallUpdatePoll(World(stats, events), <<user, choice>>)
    IN /\ "current_poll" \in DOMAIN events
          => TotalVotes(events["current_poll"]) < MaxVotes
       /\ stats' = r.w.stats
       /\ events' = r.w.events
       /\ sent' = r.w.sent
       /\ locks' = r.w.held
       /\ call' = [name |-> "update_poll", user |-> user, choice |-> choice]
       /\ dispatch' = <<>>
       /\ raised' = r.err
       /\ escaped' = FALSE
       /\ audit' = r.w.audit
       /\ UNCHANGED <<now, ticks, prev_cmd, dice>>
       /\ UNCHANGED <<file, boot, emitted, chatters, conc>>

\* the history entry of a user who has sent no command yet
NoCommand == [at |-> -1, level |-> "none", dispatch |-> <<>>]

\* the state after _handle_message yielded r
Handled(r, username, text) ==
    /\ TotalMessages(stats, DOMAIN stats) < MaxMsgs
    /\ stats' = r.w.stats
    /\ events' = r.w.events
    /\ sent' = r.w.sent
    /\ locks' = r.w.held
    /\ now' = now + r.w.slept
    /\ dispatch' = r.dispatch
    /\ raised' = r.raised
    /\ escaped' = r.escaped
    /\ call' = [name |-> "handle_message", user |-> username, text |-> text,
                level |-> r.level,
                prev |-> DictGet(prev_cmd, username, NoCommand),
                gap |-> IF username \in DOMAIN prev_cmd
                        THEN now - prev_cmd[username].at ELSE -1]
    /\ prev_cmd' = IF SplitCommand(text) # <<>>
                   THEN DictSet(prev_cmd, username,
                                [at |-> now, level |-> r.level,
                                 dispatch |-> r.dispatch])
                   ELSE prev_cmd
    /\ audit' = r.w.audit
    /\ UNCHANGED <<ticks, dice>>
    /\ UNCHANGED <<file, boot, emitted, chatters, conc>>

\* the chat transport delivers a message to _handle_message
HandleMessage(username, text) ==
    Handled(HandleMessageBody(World(stats, events), username, text, now),
            username, text)

Next ==
    \/ \E d \in TickSteps : Tick(d)
    \/ \E username \in Names, text \in Texts : HandleMessage(username, text)
    \/ Monitor
    \/ \E user \in VoteUsers, choice \in VoteChoices : ApiUpdatePoll(user, choice)

Spec == Init /\ [][Next]_vars

----------------------------------------------------------------------------
\* The router under the commands that target users, set levels and roll
\* dice, started on a stats file that may already hold a record of alice.

Levels == {OWNER, MOD, VIP, USER}

\* the registries _load_stats builds: the owner alone, or the owner and a
\* record of alice at the level the file gives
LoadedStats ==
    {(Owner :> User(OWNER, StartTime))}
    \cup {(Owner :> User(OWNER, StartTime)) @@ ("alice" :> User(level, StartTime)) :
            level \in {VIP, MOD}}

RouterTexts ==
    {<<"!messages">>, <<"!messages", "help">>,
     <<"!bonk", "alice">>, <<"!bonk", "bob">>, <<"!bonk", "helper">>,
     <<"!hug", "bob">>,
     <<"!roll", "2d5">>, <<"!roll", "20">>, <<"!roll">>, <<"!roll", "2dx">>,
     <<"!set_vips", "alice">>, <<"!set_mods">>, <<"!set_mods", "help">>,
     <<"!start_poll">>}

\* the clock advances of the router's runs
RouterSteps == {COMMAND_DELAY - 1}

InitRouter ==
    /\ stats \in LoadedStats
    /\ file = Json(Snapshot(stats))
    /\ dice = NoDice
    /\ BotInit

\* a caller of the facade sets a level: bot.set_user_level(username, level)
ApiSetUserLevel(username, level) ==
    LET r == SetUserLevel(World(stats, events), username, level)
    IN /\ stats' = r.w.stats
       /\ events' = r.w.events
       /\ sent' = r.w.sent
       /\ locks' = r.w.held
       /\ call' = [name |-> "set_user_level", user |-> username,
                   level |-> level]
       /\ dispatch' = <<>>
       /\ raised' = r.err
       /\ escaped' = FALSE
       /\ audit' = r.w.audit
       /\ UNCHANGED <<now, ticks, prev_cmd, dice>>
       /\ UNCHANGED <<file, boot, emitted, chatters, conc>>

NextRouter ==
    \/ \E d \in RouterSteps : Tick(d)
    \/ \E username \in Names, text \in RouterTexts : HandleMessage(username, text)

SpecRouter == InitRouter /\ [][NextRouter]_vars

\* the texts that set levels, and the callers of set_user_level
LevelTexts ==
    {<<"!set_vips", "alice">>, <<"!set_mods", "alice">>, <<"!set_vips", "owner">>,
     <<"!set_mods", "bob", "alice">>}

NextLevels ==
    \/ \E username \in Names, text \in LevelTexts : HandleMessage(username, text)
    \/ \E username \in Names \cup {"bob"}, level \in Levels :
          ApiSetUserLevel(username, level)

SpecLevels == InitRouter /\ [][NextLevels]_vars

----------------------------------------------------------------------------
\* Startup and the stats file: Twitchy.__init__ from _load_stats on, the
\* persistence loop and update_user.

\* the files Twitchy can find at startup: none, one json.loads rejects, the
\* one an earlier run seeded, and one that holds a second user without the
\* optional last_chat
StartFiles ==
    {NoFile, Malformed, SeedFile(Owner, StartTime - 1),
     Json((Owner :> ToDict(SeedUser(StartTime - 1)))
          @@ ("alice" :> [level |-> VIP, messages_sent |-> 1]))}

\* the records a caller passes to update_user
UpdateRecords ==
    {[User(USER, StartTime) EXCEPT !.last_command = StartTime],
     [User(VIP, StartTime) EXCEPT !.last_vote = StartTime, !.messages_sent = 1]}

BootTexts == {<<"hello">>}

InitBoot ==
    /\ stats = <<>>
    /\ file \in StartFiles
    /\ dice = NoDice
    /\ events = <<>>
    /\ now = StartTime
    /\ ticks = 0
    /\ call = [name |-> "init"]
    /\ sent = <<>>
    /\ dispatch = <<>>
    /\ raised = FALSE
    /\ prev_cmd = <<>>
    /\ locks = {}
    /\ escaped = FALSE
    /\ audit = NoAudit
    /\ boot = "new"
    /\ emitted = <<>>
    /\ chatters = {}
    /\ conc = NoThreads

\* the file _load_stats reads: the one it found, or the one it wrote
FileRead(f, t) == IF f.kind = "absent" THEN SeedFile(Owner, t) ELSE f

\* self._load_stats() in __init__: json.loads raises JSONDecodeError on a
\* malformed file and nothing catches it
LoadStats ==
    /\ boot = "new"
    /\ file' = FileRead(file, now)
    /\ IF file.kind = "malformed"
       THEN /\ boot' = "failed"
            /\ escaped' = TRUE
            /\ stats' = stats
       ELSE /\ boot' = "loaded"
            /\ escaped' = FALSE
            /\ stats' = Loaded(FileRead(file, now).data, now)
    /\ call' = [name |-> "load_stats", found |-> file.kind]
    /\ sent' = <<>>
    /\ dispatch' = <<>>
    /\ raised' = (file.kind = "malformed")
    /\ audit' = NoAudit
    /\ UNCHANGED <<events, now, ticks, prev_cmd, locks, dice, emitted,
                   chatters, conc>>

\* the three thread starts that end __init__
StartThreads ==
    /\ boot = "loaded"
    /\ boot' = "running"
    /\ call' = [name |-> "start_threads"]
    /\ sent' = <<>>
    /\ dispatch' = <<>>
    /\ raised' = FALSE
    /\ escaped' = FALSE
    /\ audit' = NoAudit
    /\ UNCHANGED <<stats, events, now, ticks, prev_cmd, locks, dice, file,
                   emitted, chatters, conc>>

\* the state after an iteration of _file_write_loop yielded r
FileWritten(r) ==
    /\ file' = r.file
    /\ locks' = r.w.held
    /\ audit' = r.w.audit
    /\ call' = [name |-> "file_write"]
    /\ sent' = <<>>
    /\ dispatch' = <<>>
    /\ raised' = FALSE
    /\ escaped' = FALSE
    /\ UNCHANGED <<stats, events, now, ticks, prev_cmd, dice, boot, emitted,
                   chatters, conc>>

\* one iteration of _file_write_loop
FileWrite ==
    /\ boot = "running"
    /\ FileWritten(FileWriteBody(World(stats, events)))

\* the state after update_user yielded r
UserUpdated(r, username) ==
    /\ stats' = r.w.stats
    /\ locks' = r.w.held
    /\ audit' = r.w.audit
    /\ call' = [name |-> "update_user", user |-> username]
    /\ sent' = <<>>
    /\ dispatch' = <<>>
    /\ raised' = r.err
    /\ escaped' = FALSE
    /\ UNCHANGED <<events, now, ticks, prev_cmd, dice, file, boot, emitted,
                   chatters, conc>>

\* a caller of the facade replaces a record: bot.update_user(user)
ApiUpdateUser(username, user) ==
    /\ boot = "running"
    /\ UserUpdated(PublicUpdateUser(World(stats, events), username, user),
                   username)

NextBoot ==
    \/ LoadStats
    \/ StartThreads
    \/ FileWrite
    \/ \E username \in Names, user \in UpdateRecords :
          ApiUpdateUser(username, user)
    \/ \E username \in Names, text \in BootTexts :
          boot = "running" /\ HandleMessage(username, text)
    \/ \E d \in TickSteps : boot = "running" /\ Tick(d)

SpecBoot == InitBoot /\ [][NextBoot]_vars

----------------------------------------------------------------------------
\* Broadcasts under the sweep: add_event, the clock and _monitor_loop.

\* the timeout of the broadcasts, in seconds
BroadcastTimeout == 2

\* the slots and the broadcasts a caller passes to add_event at time t: one
\* shot, repeating once or twice, and one with timeout 0
BroadcastSlots == {"broadcast", "notice"}
Broadcasts(t) ==
    {BroadcastBotEvent("a", BroadcastTimeout, TRUE, 1, t),
     BroadcastBotEvent("b", BroadcastTimeout, FALSE, 1, t),
     BroadcastBotEvent("c", BroadcastTimeout, FALSE, 2, t),
     BroadcastBotEvent("z", 0, FALSE, 1, t)}

SweepSteps == {1, BroadcastTimeout}

\* the state after add_event yielded r
EventAdded(r, name, event) ==
    /\ stats' = r.w.stats
    /\ events' = r.w.events
    /\ sent' = r.w.sent
    /\ locks' = r.w.held
    /\ audit' = r.w.audit
    /\ emitted' = DictSet(emitted, name, [event |-> event, count |-> 0])
    /\ call' = [name |-> "add_event", slot |-> name, ok |-> r.ok]
    /\ dispatch' = <<>>
    /\ raised' = FALSE
    /\ escaped' = FALSE
    /\ UNCHANGED <<now, ticks, prev_cmd, dice, file, boot, chatters, conc>>

\* a caller of the facade inserts an event: bot.add_event(name, event)
ApiAddEvent(name, event) ==
    EventAdded(AddEvent(World(stats, events), name, event), name, event)

NextSweep ==
    \/ \E d \in SweepSteps : Tick(d)
    \/ \E name \in BroadcastSlots, event \in Broadcasts(now) :
          ApiAddEvent(name, event)
    \/ Monitor

SpecSweep == Init /\ [][NextSweep]_vars

----------------------------------------------------------------------------
\* The callback and the three loops side by side, each a step of its own.

ThreadTexts ==
    {<<"!vote", "cat">>, <<"!start_poll", "Pet", "cat", "dog", "2">>,
     <<"!bonk", "alice">>}

ThreadSteps == {2}

\* what the API call of _get_chatters comes back with
FetchResults ==
    {[ok |-> TRUE, data |-> {"alice"}], [ok |-> FALSE, data |-> {}]}

\* the state after an iteration of _monitor_chatters yielded r
ChattersMonitored(r, got) ==
    /\ chatters' = IF r.exc THEN chatters ELSE got.data
    /\ locks' = r.w.held
    /\ audit' = r.w.audit
    /\ call' = [name |-> "monitor_chatters"]
    /\ sent' = <<>>
    /\ dispatch' = <<>>
    /\ raised' = r.exc
    /\ escaped' = r.exc
    /\ UNCHANGED <<stats, events, now, ticks, prev_cmd, dice, file, boot,
                   emitted>>

\* one iteration of _monitor_chatters
MonitorChatters(got) ==
    /\ ChattersMonitored(MonitorChattersBody(World(stats, events), got), got)
    /\ UNCHANGED conc

NextThreads ==
    \/ \E d \in ThreadSteps : Tick(d)
    \/ \E username \in Names, text \in ThreadTexts : HandleMessage(username, text)
    \/ Monitor
    \/ FileWrite
    \/ \E got \in FetchResults : MonitorChatters(got)
    \/ \E user \in VoteUsers : ApiUpdatePoll(user, "dog")

SpecThreads == Init /\ [][NextThreads]_vars

----------------------------------------------------------------------------
\* Two _handle_message callbacks and the three loops, statement by statement:
\* a thread is the statements it has left, a mutex is free or held by a
\* thread, the registry maps a name to a User object and an object has its
\* messages_sent. conc holds all of it; the other variables rest.

Handlers == {"h1", "h2"}
Threads == Handlers \cup {"sweep", "writer", "chatters"}
Mutexes == {FILE_MUTEX, QUEUE_MUTEX, CHATTERS_MUTEX}

\* a statement: what it does, and the mutex it is about
Stmt(op, arg) == [op |-> op, arg |-> arg]

\* _update_user asking for _queue_mutex inside its with block
UpdateUserCodeNested ==
    <<Stmt("acquire", FILE_MUTEX), Stmt("acquire", QUEUE_MUTEX),
      Stmt("update", ""), Stmt("store", ""),
      Stmt("release", QUEUE_MUTEX), Stmt("release", FILE_MUTEX)>>

\* _update_user: with self._file_mutex: the two field updates, then
\* self._stats[user.name] = user
UpdateUserCode ==
    <<Stmt("acquire", FILE_MUTEX), Stmt("update", ""), Stmt("store", ""),
      Stmt("release", FILE_MUTEX)>>

\* what _handle_command runs for the message: the owner's !start_poll goes
\* through add_poll, add_event under _queue_mutex and then the send; a
\* message without "!" runs nothing
CommandCode(username, text) ==
    IF SplitCommand(text) # <<>> /\ username = Owner
    THEN <<Stmt("acquire", QUEUE_MUTEX), Stmt("insert", ""),
           Stmt("release", QUEUE_MUTEX), Stmt("send", "")>>
    ELSE <<>>

\* _handle_message: the test of the registry, add_user, the read of the
\* record, _handle_command and _update_user
HandlerCode(username, text) ==
    <<Stmt("check", ""), Stmt("add", ""), Stmt("fetch", "")>>
    \o CommandCode(username, text) \o UpdateUserCode

\* one pass of _monitor_loop, of _file_write_loop and of _monitor_chatters
SweepCode ==
    <<Stmt("acquire", QUEUE_MUTEX), Stmt("finish", ""),
      Stmt("release", QUEUE_MUTEX)>>
WriterCode ==
    <<Stmt("acquire", FILE_MUTEX), Stmt("write", ""),
      Stmt("release", FILE_MUTEX)>>
ChattersCode ==
    <<Stmt("acquire", CHATTERS_MUTEX), Stmt("get", ""),
      Stmt("release", CHATTERS_MUTEX)>>

\* the messages the two callbacks are delivered
Deliveries ==
    {[user |-> "alice", text |-> <<"hello">>],
     [user |-> Owner, text |-> <<"!start_poll", "Pet", "cat", "dog", "2">>]}

\* the object add_user creates in the callback t, and the objects loaded at
\* startup
NewObject(t) == IF t = "h1" THEN 1 ELSE 2
LoadedObject(name) == IF name = Owner THEN 10 ELSE 11

\* the registries the callbacks start from
StartNames == {{Owner}, {Owner, "alice"}}

ConcStart(names, d1, d2) ==
    [code |-> [t \in Threads |->
                 CASE t = "h1" -> HandlerCode(d1.user, d1.text)
                   [] t = "h2" -> HandlerCode(d2.user, d2.text)
                   [] t = "sweep" -> SweepCode
                   [] t = "writer" -> WriterCode
                   [] OTHER -> ChattersCode],
     name |-> ("h1" :> d1.user) @@ ("h2" :> d2.user),
     user |-> [t \in Handlers |-> 0],
     holder |-> [m \in Mutexes |-> "free"],
     reg |-> [n \in names |-> LoadedObject(n)],
     heap |-> [i \in {LoadedObject(n) : n \in names} |-> [messages_sent |-> 0]],
     slot |-> "free",
     written |-> <<>>,
     last |-> [thread |-> "none", op |-> "none", arg |-> ""]]

InitConc ==
    /\ stats = (Owner :> User(OWNER, StartTime))
    /\ file = SeedFile(Owner, StartTime)
    /\ dice = NoDice
    /\ events = <<>>
    /\ now = StartTime
    /\ ticks = 0
    /\ call = [name |-> "init"]
    /\ sent = <<>>
    /\ dispatch = <<>>
    /\ raised = FALSE
    /\ prev_cmd = <<>>
    /\ locks = {}
    /\ escaped = FALSE
    /\ audit = NoAudit
    /\ boot = "running"
    /\ emitted = <<>>
    /\ chatters = {}
    /\ \E names \in StartNames, d1 \in Deliveries, d2 \in Deliveries :
          conc = ConcStart(names, d1, d2)

\* the statement the thread t is at
AtStmt(c, t, op) == c.code[t] # <<>> /\ c.code[t][1].op = op

\* the thread t has run the statement it was at
Advanced(c, t) ==
    [c EXCEPT !.code[t] = Tail(@),
              !.last = [thread |-> t, op |-> c.code[t][1].op,
                        arg |-> c.code[t][1].arg]]

Rest ==
    UNCHANGED <<stats, events, now, ticks, call, sent, dispatch, raised,
                prev_cmd, locks, escaped, dice, audit, file, boot, emitted,
                chatters>>

\* if username not in self._stats: the branch skips add_user
CheckStep(t) ==
    /\ t \in Handlers
    /\ AtStmt(conc, t, "check")
    /\ conc' = IF conc.name[t] \in DOMAIN conc.reg
               THEN [Advanced(conc, t) EXCEPT !.code[t] = Tail(Tail(conc.code[t]))]
               ELSE Advanced(conc, t)
    /\ Rest

\* self.add_user(User(username)): a new object under the name
AddStep(t) ==
    /\ t \in Handlers
    /\ AtStmt(conc, t, "add")
    /\ conc' = [Advanced(conc, t) EXCEPT
                  !.reg = DictSet(conc.reg, conc.name[t], NewObject(t)),
                  !.heap = DictSet(conc.heap, NewObject(t),
                                   [messages_sent |-> 0])]
    /\ Rest

\* user = self._stats[username]
FetchStep(t) ==
    /\ t \in Handlers
    /\ AtStmt(conc, t, "fetch")
    /\ conc' = [Advanced(conc, t) EXCEPT !.user[t] = conc.reg[conc.name[t]]]
    /\ Rest

\* the entry of a with block: Lock.acquire() waits until the mutex is free,
\* whoever holds it
AcquireStep(t) ==
    /\ AtStmt(conc, t, "acquire")
    /\ conc.holder[conc.code[t][1].arg] = "free"
    /\ conc' = [Advanced(conc, t) EXCEPT !.holder[conc.code[t][1].arg] = t]
    /\ Rest

\* the exit of a with block
ReleaseStep(t) ==
    /\ AtStmt(conc, t, "release")
    /\ conc' = [Advanced(conc, t) EXCEPT !.holder[conc.code[t][1].arg] = "free"]
    /\ Rest

\* user.last_chat = time.time(); user.messages_sent += 1
UpdateStep(t) ==
    /\ t \in Handlers
    /\ AtStmt(conc, t, "update")
    /\ conc' = [Advanced(conc, t) EXCEPT
                  !.heap[conc.user[t]].messages_sent = @ + 1]
    /\ Rest

\* self._stats[user.name] = user
StoreStep(t) ==
    /\ t \in Handlers
    /\ AtStmt(conc, t, "store")
    /\ conc' = [Advanced(conc, t) EXCEPT
                  !.reg = DictSet(conc.reg, conc.name[t], conc.user[t])]
    /\ Rest

\* self._events[name] = event
InsertStep(t) ==
    /\ AtStmt(conc, t, "insert")
    /\ conc' = [Advanced(conc, t) EXCEPT !.slot = t]
    /\ Rest

\* the to_dict of every record of the registry goes to the file
WriteStep(t) ==
    /\ AtStmt(conc, t, "write")
    /\ conc' = [Advanced(conc, t) EXCEPT
                  !.written = [n \in DOMAIN conc.reg |-> conc.heap[conc.reg[n]]]]
    /\ Rest

\* the statements that change nothing here: the send of add_poll, the
\* finish of an event that has not timed out, the fetch of the chatters
PassStep(t) ==
    /\ \/ AtStmt(conc, t, "send")
       \/ AtStmt(conc, t, "finish")
       \/ AtStmt(conc, t, "get")
    /\ conc' = Advanced(conc, t)
    /\ Rest

NextConc ==
    \E t \in Threads :
       \/ CheckStep(t)
       \/ AddStep(t)
       \/ FetchStep(t)
       \/ AcquireStep(t)
       \/ ReleaseStep(t)
       \/ UpdateStep(t)
       \/ StoreStep(t)
       \/ InsertStep(t)
       \/ WriteStep(t)
       \/ PassStep(t)

SpecConc == InitConc /\ [][NextConc]_vars

----------------------------------------------------------------------------
\* Levels over restarts: the level commands, the persistence loop, and the
\* process ending and being constructed again from the stats file.

RestartTexts ==
    {<<"hello">>, <<"!set_vips", "alice">>, <<"!set_mods", "alice">>}

\* the process ends, at any moment, and Twitchy.__init__ runs again:
\* _load_stats builds the registry from the file, the event table is empty
Restart ==
    /\ boot = "running"
    /\ file.kind = "json"
    /\ ticks < MaxTicks
    /\ ticks' = ticks + 1
    /\ now' = now + 1
    /\ stats' = Loaded(file.data, now + 1)
    /\ events' = <<>>
    /\ prev_cmd' = <<>>
    /\ emitted' = <<>>
    /\ chatters' = {}
    /\ locks' = {}
    /\ call' = [name |-> "restart"]
    /\ sent' = <<>>
    /\ dispatch' = <<>>
    /\ raised' = FALSE
    /\ escaped' = FALSE
    /\ audit' = NoAudit
    /\ UNCHANGED <<file, boot, dice, conc>>

NextRestart ==
    \/ \E username \in Names, text \in RestartTexts : HandleMessage(username, text)
    \/ FileWrite
    \/ Restart

SpecRestart == Init /\ [][NextRestart]_vars

----------------------------------------------------------------------------
\* The three loops around their bodies: "while not self._end_event.is_set()",
\* the body, and what ends a loop. Here conc holds _end_event, where each
\* loop is, and how many bodies it has finished since the event was set.

Loops == {"writer", "sweep", "chatters"}

\* the count of bodies after the event stops here
AfterCap == 2

\* LoopTop that does not look at the event
LoopTopBlind(end) == "in"

\* while not self._end_event.is_set(): the loop ends or goes on to its body
LoopTop(end) == IF end THEN "ended" ELSE "in"

LoopsStart ==
    [end |-> FALSE, pc |-> [t \in Loops |-> "top"], after |-> [t \in Loops |-> 0]]

\* the loop t has left its body: an exception that left the body has left
\* the while statement and the thread's target with it
BodyLeft(c, t, exc) ==
    [c EXCEPT !.pc[t] = IF exc THEN "dead" ELSE "top",
              !.after[t] = IF c.end THEN Min(@ + 1, AfterCap) ELSE @]

\* the poll a caller inserts at time t
LoopPoll(t) == PollBotEvent("Pet", <<"cat", "dog">>, 2, t)

LoopSteps == {2}

InitLoops ==
    /\ stats = (Owner :> User(OWNER, StartTime))
    /\ file = SeedFile(Owner, StartTime)
    /\ dice = NoDice
    /\ events = <<>>
    /\ now = StartTime
    /\ ticks = 0
    /\ call = [name |-> "init"]
    /\ sent = <<>>
    /\ dispatch = <<>>
    /\ raised = FALSE
    /\ prev_cmd = <<>>
    /\ locks = {}
    /\ escaped = FALSE
    /\ audit = NoAudit
    /\ boot = "running"
    /\ emitted = <<>>
    /\ chatters = {}
    /\ conc = LoopsStart

\* a step of a loop that touches nothing but the loop and the file
LoopOnly(name, exc) ==
    /\ call' = [name |-> name]
    /\ sent' = <<>>
    /\ dispatch' = <<>>
    /\ raised' = exc
    /\ escaped' = exc
    /\ audit' = NoAudit
    /\ UNCHANGED <<stats, events, now, ticks, prev_cmd, dice, boot, emitted,
                   chatters>>

\* the test at the top of the while statement of the loop t
LoopCheck(t) ==
    /\ conc.pc[t] = "top"
    /\ conc' = [conc EXCEPT !.pc[t] = LoopTop(conc.end)]
    /\ LoopOnly("loop_check", FALSE)
    /\ UNCHANGED <<file, locks>>

\* self._end_event.set(), by whoever holds the bot
SetEndEvent ==
    /\ ~conc.end
    /\ conc' = [conc EXCEPT !.end = TRUE]
    /\ LoopOnly("set_end", FALSE)
    /\ UNCHANGED <<file, locks>>

\* with self._file_mutex: with open(STATS_PATH, "w") as file: the open
\* empties the file, or raises OSError and leaves it
WriterOpen(ok) ==
    /\ conc.pc["writer"] = "in"
    /\ FILE_MUTEX \notin locks
    /\ IF ok
       THEN /\ file' = Malformed
            /\ locks' = locks \cup {FILE_MUTEX}
            /\ conc' = [conc EXCEPT !.pc["writer"] = "opened"]
       ELSE /\ file' = file
            /\ locks' = locks
            /\ conc' = BodyLeft(conc, "writer", TRUE)
    /\ LoopOnly("file_open", ~ok)

\* file.write(json.dumps(data, indent=4)) and the end of the two with
\* blocks: the snapshot is in the file, or the write raised
WriterWrite(ok) ==
    /\ conc.pc["writer"] = "opened"
    /\ file' = IF ok THEN Json(Snapshot(stats)) ELSE file
    /\ locks' = locks \ {FILE_MUTEX}
    /\ conc' = BodyLeft(conc, "writer", ~ok)
    /\ LoopOnly("file_write", ~ok)

\* the state after the body of _monitor_loop yielded r
SweptInLoop(r) ==
    /\ Swept(r)
    /\ conc' = BodyLeft(conc, "sweep", r.exc)

\* the body of _monitor_loop after its sleep
SweepLoopBody(down) ==
    /\ conc.pc["sweep"] = "in"
    /\ SweptInLoop(MonitorSweep(World(stats, events), now, down))

\* the state after the body of _monitor_chatters yielded r
ChattersInLoop(r, got) ==
    /\ ChattersMonitored(r, got)
    /\ conc' = BodyLeft(conc, "chatters", r.exc)

\* the body of _monitor_chatters
ChattersLoopBody(got) ==
    /\ conc.pc["chatters"] = "in"
    /\ ChattersInLoop(MonitorChattersBody(World(stats, events), got), got)

\* a callback waits at _update_user while the persistence loop holds
\* _file_mutex
MessageInLoops(username, text) ==
    /\ FILE_MUTEX \notin locks
    /\ HandleMessage(username, text)

\* the loops and the setting of the event
NextLoopsAlone ==
    \/ \E t \in Loops : LoopCheck(t)
    \/ SetEndEvent
    \/ \E ok \in BOOLEAN : WriterOpen(ok)
    \/ \E ok \in BOOLEAN : WriterWrite(ok)
    \/ \E down \in BOOLEAN : SweepLoopBody(down)
    \/ \E got \in FetchResults : ChattersLoopBody(got)

NextLoops ==
    \/ NextLoopsAlone
    \/ \E d \in LoopSteps : Tick(d)
    \/ ApiAddEvent("current_poll", LoopPoll(now))
    \/ MessageInLoops("alice", <<"hello">>)

SpecLoops == InitLoops /\ [][NextLoops]_vars

\* a loop that can take a step takes one
LoopsFair ==
    /\ \A t \in Loops : WF_vars(LoopCheck(t))
    /\ WF_vars(\E ok \in BOOLEAN : WriterOpen(ok))
    /\ WF_vars(\E ok \in BOOLEAN : WriterWrite(ok))
    /\ WF_vars(\E down \in BOOLEAN : SweepLoopBody(down))
    /\ WF_vars(\E got \in FetchResults : ChattersLoopBody(got))

SpecLoopsFair == InitLoops /\ [][NextLoopsAlone]_vars /\ LoopsFair

----------------------------------------------------------------------------
\* _roll_dice(sides, number), one die at a time.

\* the arguments (sides, number) of the calls
DiceInputs ==
    {<<1, 1>>, <<1, 17>>, <<2, 3>>, <<2, 15>>, <<2, 16>>, <<5, 2>>, <<6, 3>>}

RECURSIVE SeqSum(_)
SeqSum(s) == IF s = <<>> THEN 0 ELSE Head(s) + SeqSum(Tail(s))

InitDice ==
    /\ stats = (Owner :> User(OWNER, StartTime))
    /\ file = SeedFile(Owner, StartTime)
    /\ \E in \in DiceInputs :
          dice = [pc |-> "called", sides |-> in[1], count |-> in[2],
                  number |-> in[2], rolls |-> <<>>, sum |-> 0]
    /\ BotInit

\* number = min(number, 15)
RollClamp ==
    /\ dice.pc = "called"
    /\ dice' = [dice EXCEPT !.number = Clamped(@), !.pc = "rolling"]
    /\ UNCHANGED <<audit, file, boot, emitted, chatters, conc>>
    /\ UNCHANGED <<stats, events, now, ticks, call, sent, dispatch, raised,
                   prev_cmd, locks, escaped>>

\* one random.randint(1, sides) of the list comprehension over range(number)
RollOne(roll) ==
    /\ dice.pc = "rolling"
    /\ Len(dice.rolls) < dice.number
    /\ dice' = [dice EXCEPT !.rolls = Append(@, roll)]
    /\ UNCHANGED <<audit, file, boot, emitted, chatters, conc>>
    /\ UNCHANGED <<stats, events, now, ticks, call, sent, dispatch, raised,
                   prev_cmd, locks, escaped>>

\* sum(rolls) goes into the string returned
RollReturn ==
    /\ dice.pc = "rolling"
    /\ Len(dice.rolls) >= dice.number
    /\ dice' = [dice EXCEPT !.sum = SeqSum(dice.rolls), !.pc = "returned"]
    /\ UNCHANGED <<audit, file, boot, emitted, chatters, conc>>
    /\ UNCHANGED <<stats, events, now, ticks, call, sent, dispatch, raised,
                   prev_cmd, locks, escaped>>

NextDice ==
    \/ RollClamp
    \/ \E roll \in 1..dice.sides : RollOne(roll)
    \/ RollReturn

SpecDice == InitDice /\ [][NextDice]_vars

----------------------------------------------------------------------------
\* Vocabulary of the properties.

HasPoll(evs) == "current_poll" \in DOMAIN evs
Poll(evs) == evs["current_poll"]
Declared(ev) == Range(ev.choices)

\* some message of this type is among msgs
SentType(msgs, type) == \E i \in 1..Len(msgs) : msgs[i].type = type

\* the step handled a chat message whose command name is cmd
IsCommand(c, cmd) == c.name = "handle_message" /\ c.text[1] = cmd

\* the highest tally of a poll, and the declared choices that reach it
MaxTally(ev) == CHOOSE m \in {ev.tally[c] : c \in Declared(ev)} :
                    \A c \in Declared(ev) : ev.tally[c] <= m
FirstAtMax(ev) ==
    ev.choices[CHOOSE i \in 1..Len(ev.choices) :
                  /\ ev.tally[ev.choices[i]] = MaxTally(ev)
                  /\ \A j \in 1..(i - 1) : ev.tally[ev.choices[j]] # MaxTally(ev)]

\* the comma-separated choice list of the usage text of !start_poll
CommaSplit(s) ==
    CASE s = "cat,dog,bird" -> <<"cat", "dog", "bird">>
      [] OTHER -> <<s>>

----------------------------------------------------------------------------
\* C1: adding a poll while the slot "current_poll" is occupied fails (the
\* "already running" response) and leaves the event in the slot as it was,
\* with its tallies and its spawn time.
C1_AddOnOccupiedFails ==
    [][(/\ call'.name = "handle_message"
        /\ dispatch' = <<"OnCreatePollCommand">>
        /\ ~raised'
        /\ HasPoll(events))
       => /\ events' = events
          /\ SentType(sent', "already_running")
          /\ ~SentType(sent', "created_poll")]_vars

\* C2: update_poll for a declared choice c of the open poll raises the tally
\* of c by exactly one and leaves every other tally, and the rest of the
\* poll, as it was.
C2_VoteCountsOnce ==
    [][(/\ call'.name = "update_poll"
        /\ HasPoll(events)
        /\ call'.choice \in Declared(Poll(events)))
       => /\ HasPoll(events')
          /\ Poll(events').choices = Poll(events).choices
          /\ \A c \in Declared(Poll(events)) :
                Poll(events').tally[c] =
                    Poll(events).tally[c] + (IF c = call'.choice THEN 1 ELSE 0)]_vars

\* C2 happens: a vote for a declared choice was counted while the other
\* declared choices have fewer votes
C2_Witness ==
    /\ call.name = "update_poll"
    /\ HasPoll(events)
    /\ call.choice \in Declared(Poll(events))
    /\ Poll(events).tally[call.choice] = 2
    /\ \A c \in Declared(Poll(events)) \ {call.choice} : Poll(events).tally[c] = 0

\* C3: update_poll for a choice the open poll does not declare changes no
\* tally and answers with the "isn't in this poll" failure, never with the
\* thanks for voting.
C3_UndeclaredVoteFails ==
    [][(/\ call'.name = "update_poll"
        /\ HasPoll(events)
        /\ call'.choice \notin Declared(Poll(events)))
       => /\ events' = events
          /\ SentType(sent', "not_in_poll")
          /\ ~SentType(sent', "thank_you")]_vars

\* C4: a chat message "!vote c", c declared by the open poll, from a user
\* whose vote cooldown has elapsed, raises the tally of c by one.
C4_ChatVoteCounts ==
    [][(/\ IsCommand(call', "!vote")
        /\ Len(call'.text) = 2
        /\ HasPoll(events)
        /\ call'.text[2] \in Declared(Poll(events))
        /\ now - stats'[call'.user].last_vote > VOTE_DELAY)
       => /\ HasPoll(events')
          /\ Poll(events').tally[call'.text[2]] =
                Poll(events).tally[call'.text[2]] + 1]_vars

\* C5: "!start_poll T c1,...,cn D" from the owner or a mod, the slot being
\* empty, puts a poll in the slot whose declared choices are exactly
\* c1..cn, every tally 0, and whose timeout is D.
C5_StartPollChoices ==
    [][(/\ IsCommand(call', "!start_poll")
        /\ Len(call'.text) = 4
        /\ call'.level \in {OWNER, MOD}
        /\ call'.text[4] \in DOMAIN IntOf
        /\ ~HasPoll(events))
       => /\ HasPoll(events')
          /\ Poll(events').choices = CommaSplit(call'.text[3])
          /\ \A c \in Declared(Poll(events')) : Poll(events').tally[c] = 0
          /\ Poll(events').timeout = IntOf[call'.text[4]]]_vars

C7_ClosesExactlyWhenDue ==
    [][(call'.name = "monitor" /\ HasPoll(events))
       => LET p == Poll(events)
              due == p.timeout = 0 \/ now - p.spawn_time >= p.timeout
          IN /\ due => ~HasPoll(events') /\ SentType(sent', "won")
             /\ ~due => events' = events /\ sent' = <<>>]_vars

\* C7 happens: a sweep has run on a poll with a positive timeout of which
\* some, but not all, has elapsed, and the poll is still in the table
C7_Witness ==
    /\ call.name = "monitor"
    /\ HasPoll(events)
    /\ Poll(events).timeout > 0
    /\ now - Poll(events).spawn_time > 0
    /\ now - Poll(events).spawn_time < Poll(events).timeout

\* C8: when a poll closes with two or more choices tied at the highest
\* tally, the announced winner is the tied choice declared first, whatever
\* the tallies are.
C8_TieGoesToFirstDeclared ==
    [][(/\ call'.name = "monitor"
        /\ HasPoll(events)
        /\ SentType(sent', "won")
        /\ Cardinality({c \in Declared(Poll(events)) :
               Poll(events).tally[c] = MaxTally(Poll(events))}) >= 2)
       => \A i \in 1..Len(sent') :
             sent'[i].type = "won"
             => sent'[i].winner = StrTitle(FirstAtMax(Poll(events)))]_vars

\* C9: a User-level invoker's command sent COMMAND_DELAY - 1 seconds after
\* the invoker's previous command is suppressed: the delay-not-met handler
\* is dispatched, the requested handler is not, and last_command stays.
C9_SecondWithinDelaySuppressed ==
    [][(/\ call'.name = "handle_message"
        /\ SplitCommand(call'.text) # <<>>
        /\ call'.level = USER
        /\ call'.prev.level = USER
        /\ call'.gap = COMMAND_DELAY - 1)
       => /\ dispatch' = <<DELAY_NOT_MET_COMMAND>>
          /\ stats'[call'.user].last_command = stats[call'.user].last_command]_vars

\* C10: when a User-level invoker sends two commands COMMAND_DELAY + 1
\* seconds apart, each of the two reaches the handler its name resolves to
\* and neither is answered by the delay-not-met handler.
C10_BothAfterDelayDispatched ==
    (/\ call.name = "handle_message"
     /\ SplitCommand(call.text) # <<>>
     /\ call.level = USER
     /\ call.prev.level = USER
     /\ call.gap = COMMAND_DELAY + 1)
    => /\ dispatch \in {<<DictGet(commands, call.text[1], INVALID_COMMAND)>>,
                        <<HELP_COMMAND>>}
       /\ call.prev.dispatch # <<DELAY_NOT_MET_COMMAND>>
       /\ call.prev.dispatch # <<>>

\* C10 happens: a User-level invoker's second command, COMMAND_DELAY + 1
\* seconds after the first, has run its handler
C10_Witness ==
    /\ call.name = "handle_message"
    /\ call.level = USER
    /\ call.prev.level = USER
    /\ call.gap = COMMAND_DELAY + 1
    /\ dispatch = <<"OnMessagesCommand">>
    /\ SentType(sent, "messages")

----------------------------------------------------------------------------
\* Vocabulary of the properties of the router.

\* the handler classes of the three command tables
RealHandlers == {owner_commands[k] : k \in DOMAIN owner_commands}

\* the step handled a chat message that is a command
CommandStep(c) == c.name = "handle_message" /\ SplitCommand(c.text) # <<>>

\* messages_sent of a name before its first message
SentBefore(st, name) == IF name \in DOMAIN st THEN st[name].messages_sent ELSE 0

\* the first argument of a command text, "" when it has none
FirstArg(text) == IF Len(text) > 1 THEN text[2] ELSE ""

\* the first argument is the word help, in any case
IsHelpWord(s) == s \in {"help", "HELP", "Help"}

\* the names that only the mod and owner tables, or only the owner table, hold
Privileged == DOMAIN ModOnly \cup DOMAIN OwnerOnly

\* C11: when a chat command has run a handler of the command tables and the
\* handler returned, the invoker's last_command and last_chat are the
\* current time and messages_sent is one more than before, at every level.
C11_BookkeepingAfterDispatch ==
    [][(/\ CommandStep(call')
        /\ dispatch' # <<>>
        /\ dispatch'[1] \in RealHandlers
        /\ ~raised')
       => /\ stats'[call'.user].last_command = now'
          /\ stats'[call'.user].last_chat = now'
          /\ stats'[call'.user].messages_sent =
                SentBefore(stats, call'.user) + 1]_vars

\* C12: a command of an invoker whose record level is VIP is held to the
\* VIP cooldown of 30 seconds, and one sent more than 30 and at most 60
\* seconds after the invoker's previous command is not answered by the
\* delay-not-met handler.
C12_VipCooldownApplied ==
    (/\ CommandStep(call)
     /\ call.user # Owner
     /\ stats[call.user].level = VIP)
    => /\ CommandDelay(call.level) = VIP_COMMAND_DELAY
       /\ (call.gap > VIP_COMMAND_DELAY /\ call.gap <= COMMAND_DELAY)
          => dispatch # <<DELAY_NOT_MET_COMMAND>>

\* the step is a command naming an entry the invoker's tier does not hold
Denied(c) ==
    /\ CommandStep(c)
    /\ \/ c.level = USER /\ c.text[1] \in Privileged
       \/ c.level = MOD /\ c.text[1] \in DOMAIN OwnerOnly

\* each tier's table holds the tiers below it, entry for entry, and a name
\* resolves to the invalid-command handler in every table that lacks it
TablesNest ==
    /\ \A k \in DOMAIN commands :
          /\ DictGet(mod_commands, k, INVALID_COMMAND) = commands[k]
          /\ DictGet(owner_commands, k, INVALID_COMMAND) = commands[k]
    /\ \A k \in DOMAIN ModOnly :
          /\ DictGet(commands, k, INVALID_COMMAND) = INVALID_COMMAND
          /\ DictGet(mod_commands, k, INVALID_COMMAND) = ModOnly[k]
          /\ DictGet(owner_commands, k, INVALID_COMMAND) = ModOnly[k]
    /\ \A k \in DOMAIN OwnerOnly :
          /\ DictGet(commands, k, INVALID_COMMAND) = INVALID_COMMAND
          /\ DictGet(mod_commands, k, INVALID_COMMAND) = INVALID_COMMAND
          /\ DictGet(owner_commands, k, INVALID_COMMAND) = OwnerOnly[k]

\* routing the bare command name for user at level in the current state
\* dispatches the invalid-command handler
RoutesToInvalid(user, name, level) ==
    HandleCommand(World(stats, events), user, <<name>>, level, now).dispatch
        = <<INVALID_COMMAND>>

\* C13 as stated: a User- or VIP-level invoker naming a mod or owner
\* command, and a Mod naming !set_mods, always gets the invalid-command
\* handler dispatched; the tables nest.
C13_DeniedGetsInvalid ==
    /\ Denied(call) => dispatch = <<INVALID_COMMAND>>
    /\ TablesNest

\* C13 amended: for such an invoker the name resolves to the
\* invalid-command handler, so no mod or owner handler runs; that handler
\* is dispatched unless the first argument holds "help", and then the help
\* handler is dispatched with the invalid command as its subject; the
\* tables nest.
C13_DeniedResolvesToInvalid ==
    /\ Denied(call)
       => /\ dispatch = IF ContainsHelp(FirstArg(call.text))
                        THEN <<HELP_COMMAND>> ELSE <<INVALID_COMMAND>>
          /\ \A i \in 1..Len(sent) :
                /\ sent[i].type \in {"invalid_command", "help"}
                /\ sent[i].type = "help" => sent[i].text = INVALID_COMMAND
    /\ \A user \in DOMAIN stats :
          /\ \A name \in Privileged : RoutesToInvalid(user, name, USER)
          /\ \A name \in DOMAIN OwnerOnly : RoutesToInvalid(user, name, MOD)
    /\ TablesNest

\* C13 happens: alice, a Mod, has sent !set_mods and was answered by the
\* invalid-command handler
C13_Witness ==
    /\ call.name = "handle_message"
    /\ call.user = "alice"
    /\ call.level = MOD
    /\ call.text = <<"!set_mods">>
    /\ dispatch = <<INVALID_COMMAND>>
    /\ SentType(sent, "invalid_command")

\* C14: the help handler is dispatched exactly when the first argument is
\* the word help in any case, and is given the resolved command; for every
\* other first argument, "helper" among them, the resolved command is
\* dispatched.
C14_HelpOnlyOnHelpWord ==
    (CommandStep(call) /\ dispatch # <<DELAY_NOT_MET_COMMAND>>)
    => LET resolved ==
               DictGet(CASE call.level = OWNER -> owner_commands
                         [] call.level = MOD -> mod_commands
                         [] OTHER -> commands,
                       call.text[1], INVALID_COMMAND)
       IN IF IsHelpWord(FirstArg(call.text))
          THEN /\ dispatch = <<HELP_COMMAND>>
               /\ sent = <<[type |-> "help", user |-> call.user,
                            text |-> resolved]>>
          ELSE dispatch = <<resolved>>

\* C15: when a command handler raises, the exception stays inside
\* execute_command: _handle_message runs to its end (the sender's
\* bookkeeping is done), no mutex is left held, and the message after a
\* raising one is handled in full as well.
C15_HandlerExceptionContained ==
    [][(call'.name = "handle_message" /\ (raised' \/ raised))
       => /\ ~escaped'
          /\ locks' = {}
          /\ stats'[call'.user].last_chat = now'
          /\ stats'[call'.user].messages_sent =
                SentBefore(stats, call'.user) + 1
          /\ CommandStep(call') => dispatch' # <<>>]_vars

\* C15 happens: "!roll 2dx" made the roll handler raise ValueError, nothing
\* was sent, and the sender's second message is counted
C15_Witness ==
    /\ call.name = "handle_message"
    /\ call.text = <<"!roll", "2dx">>
    /\ raised
    /\ ~escaped
    /\ sent = <<>>
    /\ locks = {}
    /\ stats[call.user].messages_sent = 2

\* C16: a chat message whose text does not begin with "!" runs no handler
\* (command, invalid-command, help or delay-not-met), sends nothing and
\* leaves the event table as it was.
C16_PlainTextSkipsRouter ==
    [][(call'.name = "handle_message" /\ ~StartsWithBang(call'.text[1]))
       => /\ dispatch' = <<>>
          /\ ~raised'
          /\ sent' = <<>>
          /\ events' = events]_vars

\* C16 happens: a plain message was handled while a poll is open
C16_Witness ==
    /\ call.name = "handle_message"
    /\ call.text = <<"hello">>
    /\ HasPoll(events)
    /\ dispatch = <<>>
    /\ stats[call.user].messages_sent = 1

RollParseFails(text) ==
    \/ Len(text) < 2
    \/ Len(StrSplitD(text[2])) < 2
    \/ StrSplitD(text[2])[1] \notin DOMAIN IntOf
    \/ StrSplitD(text[2])[2] \notin DOMAIN IntOf

\* C18: every "!roll" whose argument does not parse is answered by the
\* invalid-roll message from inside the roll handler, and the handler
\* raises nothing into the router.
C18_RollParseFailuresAnswered ==
    (/\ call.name = "handle_message"
     /\ dispatch = <<"OnRollCommand">>
     /\ Len(call.text) <= 2
     /\ RollParseFails(call.text))
    => /\ ~raised
       /\ sent = <<[type |-> "invalid_roll", user |-> call.user,
                    text |-> FirstArg(call.text)]>>

\* C19: for sides >= 1 and count >= 1, _roll_dice returns after exactly
\* n = min(count, 15) rolls, each in 1..sides, and the sum it reports is
\* the sum of the rolls, within n..n*sides.
C19_RollWithinRange ==
    (dice.pc = "returned" /\ dice.sides >= 1 /\ dice.count >= 1)
    => LET n == IF dice.count < 15 THEN dice.count ELSE 15
       IN /\ Len(dice.rolls) = n
          /\ \A i \in 1..Len(dice.rolls) : dice.rolls[i] \in 1..dice.sides
          /\ dice.sum = SeqSum(dice.rolls)
          /\ dice.sum >= n
          /\ dice.sum <= n * dice.sides

\* C19 happens: 16 two-sided dice were asked for, 15 were rolled, all of
\* them 2
C19_Witness ==
    /\ dice.pc = "returned"
    /\ dice.sides = 2
    /\ dice.count = 16
    /\ Len(dice.rolls) = 15
    /\ dice.sum = 30

\* C20: set_user_level on a record whose level is Mod or Owner changes
\* nothing, whatever level is asked for: the whole registry stays as it
\* was; and a !set_vips or !set_mods naming such a record leaves its level.
C20_ProtectedLevelKept ==
    [][/\ (/\ call'.name = "set_user_level"
           /\ call'.user \in DOMAIN stats
           /\ stats[call'.user].level \in {MOD, OWNER})
          => /\ stats' = stats
             /\ ~raised'
             /\ sent' = <<>>
       /\ (/\ call'.name = "handle_message"
           /\ dispatch' \in {<<"OnSetVipsCommand">>, <<"OnSetModsCommand">>})
          => \A n \in DOMAIN stats :
                stats[n].level \in {MOD, OWNER}
                => /\ stats'[n].level = stats[n].level
                   /\ n # call'.user => stats'[n] = stats[n]]_vars

\* C20 happens: set_user_level was asked to make alice, a Mod, a User, and
\* alice is still a Mod
C20_Witness ==
    /\ call.name = "set_user_level"
    /\ call.user = "alice"
    /\ call.level = USER
    /\ ~raised
    /\ stats["alice"].level = MOD

\* C21: what the persistence loop wrote, loaded again, is the registry that
\* was written, every field of every record, last_command and last_vote
\* among them.
C21_SnapshotRoundTrip ==
    call.name = "file_write" => Loaded(file.data, now) = stats

\* C22: when _load_stats found no file, the file exists afterwards and the
\* registry holds one record, under the owner's name, at level Owner.
C22_MissingFileSeedsOwner ==
    (call.name = "load_stats" /\ call.found = "absent")
    => /\ file.kind = "json"
       /\ DOMAIN file.data = {Owner}
       /\ DOMAIN stats = {Owner}
       /\ stats[Owner].level = OWNER
       /\ boot = "loaded"
       /\ ~escaped

\* C22 happens: Twitchy started without a file and has loaded the owner's
\* record from the file it wrote
C22_Witness ==
    /\ call.name = "load_stats"
    /\ call.found = "absent"
    /\ file = SeedFile(Owner, now)
    /\ Owner \in DOMAIN stats

\* C23: when _load_stats found a malformed file, no exception leaves it and
\* the startup goes on to the thread starts.
C23_MalformedFileAbsorbed ==
    (call.name = "load_stats" /\ call.found = "malformed")
    => /\ ~escaped
       /\ boot = "loaded"

\* the broadcasts of the table, by their kind
IsBroadcast(ev) == ev.kind = "broadcast" /\ ev.timeout > 0
OneShotBroadcast(ev) == IsBroadcast(ev) /\ ev.one_shot
RepeatingBroadcast(ev) == IsBroadcast(ev) /\ ~ev.one_shot /\ ev.repeats >= 1

\* the broadcast messages among the messages of a step
BroadcastsSent(msgs) == {i \in 1..Len(msgs) : msgs[i].type = "broadcast"}

WinnersSent(msgs) == {i \in 1..Len(msgs) : msgs[i].type = "won"}

\* C26: a poll in the slot "current_poll" stays there, the same poll with
\* no tally lowered, through every step but the sweep that announces its
\* winner; that sweep announces one winner and empties the slot.
C26_PollLeavesBySweepOnly ==
    [][HasPoll(events)
       => IF call'.name = "monitor" /\ SentType(sent', "won")
          THEN /\ Cardinality(WinnersSent(sent')) = 1
               /\ ~HasPoll(events')
          ELSE /\ HasPoll(events')
               /\ Poll(events').title = Poll(events).title
               /\ Poll(events').choices = Poll(events).choices
               /\ Poll(events').spawn_time = Poll(events).spawn_time
               /\ \A c \in Declared(Poll(events)) :
                     Poll(events').tally[c] >= Poll(events).tally[c]]_vars

\* C27: no step changes the registry or a record of it without holding
\* _file_mutex, the mutex _file_write_loop holds while it writes.
C27_MutationsHoldRegistryLock ==
    audit.unlocked = {}

\* C29: no step sends to the chat while it holds a mutex, and none fetches
\* the chatters while it holds one.
C29_NoLockAcrossNetwork ==
    audit.send_held = {} /\ audit.fetch_held = {}

\* the callbacks have returned
HandlersDone == \A t \in Handlers : conc.code[t] = <<>>

\* the callbacks that were delivered a message of the user
DeliveredTo(name) == {t \in Handlers : conc.name[t] = name}

\* C28: when the callbacks have returned, every user they were delivered a
\* message of has a record in the registry, and its messages_sent is up by
\* the number of those messages, however the callbacks were interleaved.
C28_UpdatesSerialized ==
    HandlersDone
    => \A t \in Handlers :
          /\ conc.name[t] \in DOMAIN conc.reg
          /\ conc.heap[conc.reg[conc.name[t]]].messages_sent
                = Cardinality(DeliveredTo(conc.name[t]))

\* the mutexes a thread holds, the mutex it is asking for, and whether it
\* has to wait
Holds(t) == {m \in Mutexes : conc.holder[m] = t}
Requests(t, m) == AtStmt(conc, t, "acquire") /\ conc.code[t][1].arg = m
Blocked(t) == \E m \in Mutexes : Requests(t, m) /\ conc.holder[m] # "free"

\* C30: no thread asks for _queue_mutex while it holds _file_mutex, no
\* thread asks for a mutex it holds, and no thread waits for a mutex whose
\* holder is waiting too, so while a thread has statements left some
\* thread can run.
C30_LocksDeadlockFree ==
    /\ \A t \in Threads : Requests(t, QUEUE_MUTEX) => FILE_MUTEX \notin Holds(t)
    /\ \A t \in Threads, m \in Mutexes : Requests(t, m) => m \notin Holds(t)
    /\ \A t \in Threads, m \in Mutexes :
          (Requests(t, m) /\ conc.holder[m] # "free")
          => ~Blocked(conc.holder[m])
    /\ (\E t \in Threads : conc.code[t] # <<>>)
          => \E t \in Threads : conc.code[t] # <<>> /\ ~Blocked(t)

\* C30 happens: a callback waits for _file_mutex, which the persistence
\* loop holds, and the sweep waits for _queue_mutex, which the other
\* callback holds
C30_Witness ==
    /\ Requests("h1", FILE_MUTEX)
    /\ conc.holder[FILE_MUTEX] = "writer"
    /\ Requests("sweep", QUEUE_MUTEX)
    /\ conc.holder[QUEUE_MUTEX] = "h2"

\* the order User < VIP < Mod < Owner
Rank(level) ==
    CASE level = USER -> 0 [] level = VIP -> 1 [] level = MOD -> 2
      [] level = OWNER -> 3

\* every record is kept by the step, at its level or a higher one
LevelsKeptOrRaised ==
    \A n \in DOMAIN stats :
       /\ n \in DOMAIN stats'
       /\ Rank(stats'[n].level) >= Rank(stats[n].level)

\* C31 as stated: over chat commands and restarts no record's level
\* decreases.
C31_LevelNeverDecreases ==
    [][LevelsKeptOrRaised]_vars

\* C31, amended: a chat message keeps every record and leaves its level or
\* raises it, and so does a persistence write; a restart gives every record
\* of the file the level the file has, which is the level at the last
\* write.
C31_LevelKeptSinceLastWrite ==
    [][/\ call'.name # "restart" => LevelsKeptOrRaised
       /\ call'.name = "restart"
          => /\ DOMAIN stats' = DOMAIN file.data
             /\ \A n \in DOMAIN file.data :
                   stats'[n].level = file.data[n].level
       /\ call'.name = "file_write"
          => \A n \in DOMAIN stats : file'.data[n].level = stats[n].level]_vars

\* C31 happens: alice was made a Mod, the file was written, and after a
\* restart and a !set_vips naming her she is still a Mod
C31_Witness ==
    /\ call.name = "handle_message"
    /\ dispatch = <<"OnSetVipsCommand">>
    /\ ticks > 0
    /\ "alice" \in DOMAIN stats
    /\ stats["alice"].level = MOD

\* C32: no step of a callback or of a loop lowers the messages_sent of the
\* record a name has in the registry, and no record leaves the registry.
C32_CountersNeverDecrease ==
    [][\A n \in DOMAIN conc.reg :
          /\ n \in DOMAIN conc'.reg
          /\ conc'.heap[conc'.reg[n]].messages_sent
                >= conc.heap[conc.reg[n]].messages_sent]_vars

\* the loop has left its while statement, by the test or by an exception
LoopOver(t) == conc.pc[t] \in {"ended", "dead"}

\* C36: once _end_event is set, every loop finishes at most one more body
\* and every loop comes to its end.
C36_LoopsEndAfterSignal ==
    /\ [](\A t \in Loops : conc.after[t] <= 1)
    /\ (conc.end ~> (\A t \in Loops : LoopOver(t)))

\* C36 happens: the event was set while the persistence loop slept; it
\* wrote once more, and all three loops ended at their test
C36_Witness ==
    /\ conc.end
    /\ \A t \in Loops : conc.pc[t] = "ended"
    /\ conc.after["writer"] = 1
    /\ conc.after["sweep"] = 0

\* C33: when the open or the write of the persistence loop has raised,
\* _file_mutex is free and the loop is still running, on its way to the
\* next write.
C33_FlushFailureSurvived ==
    (call.name \in {"file_open", "file_write"} /\ raised)
    => /\ FILE_MUTEX \notin locks
       /\ conc.pc["writer"] = "top"

\* C34: whenever the process may end, the stats file holds a complete
\* snapshot, the one written before or the new one.
C34_SnapshotAlwaysComplete ==
    file.kind = "json"

\* C35: a fetch of the chatters that raised leaves the cached list as it
\* was and _chatters_mutex free, and the loop is still running, on its way
\* to the next fetch.
C35_FetchFailureSurvived ==
    [][(call'.name = "monitor_chatters" /\ raised')
       => /\ chatters' = chatters
          /\ CHATTERS_MUTEX \notin locks'
          /\ conc'.pc["chatters"] = "top"]_vars

\* C40: when a finish has raised in the sweep, _queue_mutex is free and the
\* sweep loop is still running, so the poll it could not close is closed by
\* a later sweep.
C40_SweepErrorSurvived ==
    (call.name = "monitor" /\ raised)
    => /\ QUEUE_MUTEX \notin locks
       /\ conc.pc["sweep"] = "top"

\* C37: while one poll is open, a vote of a user whose vote on that poll
\* was counted in the step before changes no tally and is answered with
\* the already-voted response.
C37_OneVotePerUser ==
    [][(/\ call.name = "update_poll"
        /\ SentType(sent, "thank_you")
        /\ HasPoll(events)
        /\ call.choice \in Declared(Poll(events))
        /\ \/ call'.name = "update_poll"
           \/ IsCommand(call', "!vote")
        /\ call'.user = call.user)
       => /\ HasPoll(events')
          /\ Poll(events').tally = Poll(events).tally
          /\ SentType(sent', "already_voted")]_vars

\* C38: when the sweep closes a poll that declares at least one choice,
\* the announcement names a declared choice as the winner and gives the
\* tally of that choice as its count, also when no vote was cast.
C38_WinnerIsDeclaredChoice ==
    [][(/\ call'.name = "monitor"
        /\ HasPoll(events)
        /\ Declared(Poll(events)) # {})
       => \A i \in WinnersSent(sent') :
             \E c \in Declared(Poll(events)) :
                /\ sent'[i].winner = StrTitle(c)
                /\ sent'[i].votes = Poll(events).tally[c]]_vars

\* the slot holds a broadcast with timeout 0
ZeroTimeoutIn(evs, slot) ==
    /\ slot \in DOMAIN evs
    /\ evs[slot].kind = "broadcast"
    /\ evs[slot].timeout = 0

\* no sweep emits from, changes or removes a broadcast with timeout 0
ZeroTimeoutKeptBySweep ==
    [][\A slot \in BroadcastSlots :
          (call'.name = "monitor" /\ ZeroTimeoutIn(events, slot))
          => /\ ZeroTimeoutIn(events', slot)
             /\ events'[slot] = events[slot]
             /\ slot \notin audit'.emits]_vars

\* C39: a broadcast with timeout 0 is never emitted or removed by a sweep,
\* and once it is in a slot every step leaves it there, so that the slot
\* stays occupied.
C39_ZeroTimeoutNeverExpires ==
    [][\A slot \in BroadcastSlots :
          ZeroTimeoutIn(events, slot)
          => /\ ZeroTimeoutIn(events', slot)
             /\ events'[slot].message = events[slot].message
             /\ call'.name = "monitor" => slot \notin audit'.emits]_vars

============================================================================
